---------------------------- MODULE Spec2Model ----------------------------
(***************************************************************************)
(* ort_curation_script.py: one run of the ORT curation report generator.   *)
(* The script reads its Azure OpenAI configuration from the environment,   *)
(* loads the analyzer result (a YAML document), extracts a few fields,     *)
(* classifies the scan (ERROR / SUCCESS / INCOMPLETE), builds a prompt,    *)
(* calls the chat-completion API once, prepends a metadata header to the   *)
(* answer and writes the report to a timestamped file.                     *)
(*                                                                         *)
(* Python values are modelled as follows.                                  *)
(*   str          a TLA+ string                                            *)
(*   text         (a str that is built up and cut into lines) a sequence   *)
(*                of lines: the str split at "\n", so the last element is  *)
(*                the line still open; "a\n" is <<"a", "">>                *)
(*   list         a sequence                                               *)
(*   dict read    a function from keys to values; {} is << >>              *)
(*   by key                                                                *)
(*   dict that is a sequence of [key, value] items in insertion order      *)
(*   iterated     (Python dicts keep it; yaml.safe_load keeps file order)  *)
(*   None         NoneValue                                                *)
(***************************************************************************)
EXTENDS Integers, Sequences, FiniteSets, TLC

VARIABLES
    pc,             \* position of the process in the script
    environ,        \* os.environ: the variables that are set
    globals,        \* module-level names assigned so far (name -> value)
    locals,         \* the frame of generate_report (name -> value), << >> outside it
    exception,      \* << >>, or <<message>>: str(e) of the exception raised in the try block
    clock,          \* seconds elapsed on the wall clock read by datetime.now()
    stdout,         \* the lines printed so far
    files,          \* the files written so far (path -> text)
    exit_status,    \* << >> while the process runs, <<n>> once it has exited with status n
    scan_document,  \* << >>, or <<d>>: the document yaml.safe_load read from the input file
    api_response,   \* << >>, or <<content>>: what the chat-completion call returned
    events          \* history: the external effects of the run, in order

vars == << pc, environ, globals, locals, exception, clock, stdout, files,
           exit_status, scan_document, api_response, events >>

---------------------------------------------------------------------------
(* Bounds of the model.                                                    *)

\* longest package list of a scan document
MaxPkgs == 11
\* most projects that carry issues in a scan document
MaxProjects == 2
\* most issues recorded for one project
MaxIssues == 4
\* most seconds the run may take
MaxClock == 1

---------------------------------------------------------------------------
(* Python built-ins.                                                       *)

NoneValue == "<None>"

EmptyDict == << >>

\* d.get(k, default)
Get(d, k, default) == IF k \in DOMAIN d THEN d[k] ELSE default

\* s[:n], of a str or a list
Slice(s, n) == SubSeq(s, 1, IF Len(s) < n THEN Len(s) ELSE n)

\* bool(v) of a str or None: None and '' are false
Truthy(v) == v # NoneValue /\ v # ""

\* t1 + t2 of two texts: the open line of t1 goes on with the first line of t2
Concat(t1, t2) ==
    SubSeq(t1, 1, Len(t1) - 1) \o << t1[Len(t1)] \o t2[1] >> \o Tail(t2)

\* t[:n] of a text: each line but the last is followed by one "\n" character
RECURSIVE TextSlice(_, _)
TextSlice(t, n) ==
    IF Len(t[1]) >= n THEN << Slice(t[1], n) >>
    ELSE IF Len(t) = 1 THEN t
    ELSE << t[1] >> \o TextSlice(Tail(t), n - Len(t[1]) - 1)

\* ', '.join(repr(x) for x in l), of a list of str
RECURSIVE ReprItems(_)
ReprItems(l) ==
    IF Len(l) = 0 THEN ""
    ELSE IF Len(l) = 1 THEN "'" \o l[1] \o "'"
    ELSE "'" \o l[1] \o "', " \o ReprItems(Tail(l))

\* str(l) of a list of str, as an f-string formats it: ['a', 'b']
ReprList(l) == "[" \o ReprItems(l) \o "]"

\* '%02d' % n
Pad2(n) == IF n < 10 THEN "0" \o ToString(n) ELSE ToString(n)

\* datetime.now(): the run starts at 2025-01-01 00:00:00
Now(c) == [year |-> 2025, month |-> 1, day |-> 1, hour |-> 0, minute |-> 0, second |-> c]

\* dt.strftime('%Y-%m-%d %H:%M:%S')
StrftimeHeader(dt) ==
    ToString(dt.year) \o "-" \o Pad2(dt.month) \o "-" \o Pad2(dt.day) \o " "
        \o Pad2(dt.hour) \o ":" \o Pad2(dt.minute) \o ":" \o Pad2(dt.second)

\* dt.strftime('%Y%m%d-%H%M%S')
StrftimeFileName(dt) ==
    ToString(dt.year) \o Pad2(dt.month) \o Pad2(dt.day) \o "-"
        \o Pad2(dt.hour) \o Pad2(dt.minute) \o Pad2(dt.second)

---------------------------------------------------------------------------
(* Constants of the script.                                                *)

\* key_info['packages'][:10]
PACKAGE_LIMIT == 10
\* issue.get('message', 'Unknown')[:500]
MESSAGE_LIMIT == 500
\* key_info['revision'][:8]
REVISION_LIMIT == 8
\* report[:1000]
PREVIEW_LIMIT == 1000

API_KEY_VAR == "AZURE_OPENAI_API_KEY"
ENDPOINT_VAR == "AZURE_OPENAI_ENDPOINT"
DEFAULT_ENDPOINT == "https://ltts-cariad-ddd-mvp-ai-foundry.cognitiveservices.azure.com"
API_VERSION == "2025-01-01-preview"
DEPLOYMENT_NAME == "gpt-4.1-mini"
INPUT_FILE == "ort-results/analyzer/analyzer-result.yml"

---------------------------------------------------------------------------
(* The scan documents the run may find in the input file.  Every optional  *)
(* key is present in some documents and absent in others.                  *)

\* the dicts that hold key k with a value of S, or do not hold k
Optional(k, S) == { EmptyDict } \cup { k :> v : v \in S }

\* d without the keys outside K
Restrict(d, K) == [ k \in K |-> d[k] ]

\* the subsets of three keys, in a fixed order
KeySubsets(a, b, c) == << {a, b, c}, {}, {b, c}, {a, c}, {a, b}, {a}, {b}, {c} >>

RECURSIVE Repeat(_, _)
Repeat(s, n) == IF n = 0 THEN "" ELSE s \o Repeat(s, n - 1)

\* a message longer than MESSAGE_LIMIT
LongMessage == Repeat("0123456789", 51)

Revisions == { "abc", "0123abcd", "0123456789abcdef0123456789abcdef01234567" }

VcsDicts ==
    { u @@ r : u \in Optional("url", { "https://github.com/example/app.git" }),
               r \in Optional("revision", Revisions) }

RepositoryParts == Optional("repository", Optional("vcs_processed", VcsDicts))

FullRepositoryPart ==
    "repository" :> ("vcs_processed" :>
        [ url |-> "https://github.com/example/app.git",
          revision |-> "0123456789abcdef0123456789abcdef01234567" ])

AnalyzerFields ==
    { e @@ s @@ t @@ c :
        e \in Optional("environment", Optional("ort_version", { "22.1.0" })),
        s \in Optional("start_time", { "2025-01-01T00:00:00Z" }),
        t \in Optional("end_time", { "2025-01-01T00:05:00Z" }),
        c \in Optional("config",
                Optional("enabled_package_managers", { << "NPM", "PIP" >> })) }

FullAnalyzerFields ==
    [ environment |-> [ ort_version |-> "22.1.0" ],
      start_time |-> "2025-01-01T00:00:00Z",
      end_time |-> "2025-01-01T00:05:00Z",
      config |-> [ enabled_package_managers |-> << "NPM", "PIP" >> ] ]

PackageKeySubsets == KeySubsets("id", "declared_licenses", "homepage_url")

FullPackage(i) ==
    [ id |-> "NPM::pkg" \o ToString(i) \o ":1.0.0",
      declared_licenses |->
          IF i % 2 = 1 THEN << "MIT" >> ELSE << "Apache-2.0", "MIT" >>,
      homepage_url |-> "https://example.org/pkg" \o ToString(i) ]

\* the i-th package of a list: which of its keys are present turns with i
Package(i, rot) ==
    Restrict(FullPackage(i),
             PackageKeySubsets[((i - 1 + rot) % Len(PackageKeySubsets)) + 1])

PackageLists ==
    { [ i \in 1..n |-> Package(i, rot) ] : n \in 0..MaxPkgs, rot \in {0, 1} }

IssueKeySubsets == KeySubsets("severity", "source", "message")

FullIssue(p, j) ==
    [ severity |-> IF j % 2 = 1 THEN "ERROR" ELSE "WARNING",
      source |-> "NPM",
      message |-> IF j % 2 = 1 THEN "Could not resolve dependencies of project"
                                   \o ToString(p) \o "."
                  ELSE LongMessage ]

Issue(p, j) ==
    Restrict(FullIssue(p, j),
             IssueKeySubsets[((j - 1 + 4 * (p - 1)) % Len(IssueKeySubsets)) + 1])

\* the issues mapping: np projects, listed in file order, with ni issues each
IssueDict(np, ni) ==
    [ p \in 1..np |-> [ key |-> "NPM::project" \o ToString(p) \o ":1.0.0",
                        value |-> [ j \in 1..ni |-> Issue(p, j) ] ] ]

IssueDicts ==
    { IssueDict(np, ni) : np \in 0..MaxProjects, ni \in 0..MaxIssues }

ProjectLists == { << >>, << [ id |-> "NPM::project1:1.0.0" ] >> }

AllResults ==
    { p @@ k @@ i : p \in Optional("projects", ProjectLists),
                    k \in Optional("packages", PackageLists),
                    i \in Optional("issues", IssueDicts) }

SmallResults ==
    { EmptyDict,
      [ packages |-> << Package(1, 0) >> ],
      [ projects |-> << >>, issues |-> IssueDict(1, 1) ],
      [ projects |-> << [ id |-> "NPM::project1:1.0.0" ] >>,
        packages |-> << >>, issues |-> EmptyDict ] }

\* every shape of the repository and analyzer fields, with a few results
DocsOfFields ==
    { rp @@ an :
        rp \in RepositoryParts,
        an \in Optional("analyzer",
                 { a @@ r : a \in AnalyzerFields,
                            r \in Optional("result", SmallResults) }) }

\* every result, with the other fields all absent or all present
DocsOfResults ==
    { f[1] @@ ("analyzer" :> (f[2] @@ ("result" :> r))) :
        f \in { << EmptyDict, EmptyDict >>,
                << FullRepositoryPart, FullAnalyzerFields >> },
        r \in AllResults }

ScanDocuments == DocsOfFields \cup DocsOfResults

\* what response.choices[0].message.content may be
Contents ==
    { NoneValue,
      << "" >>,
      << "## Executive Summary", "", "The dependency ecosystem is healthy.", "" >> }

Environs ==
    { k @@ e : k \in Optional(API_KEY_VAR, { "", "secret-key" }),
               e \in Optional(ENDPOINT_VAR, { "https://example.openai.azure.com" }) }

---------------------------------------------------------------------------
(* ORTCurationReportGenerator: the pure steps.                             *)

\* extract_key_info(self, ort_data)
extract_key_info(ort_data) ==
    LET analyzer == Get(ort_data, "analyzer", EmptyDict)
        result == Get(analyzer, "result", EmptyDict)
        repository == Get(ort_data, "repository", EmptyDict)
    IN  [ repository_url |->
              Get(Get(repository, "vcs_processed", EmptyDict), "url", "N/A"),
          revision |->
              Get(Get(repository, "vcs_processed", EmptyDict), "revision", "N/A"),
          ort_version |->
              Get(Get(analyzer, "environment", EmptyDict), "ort_version", "N/A"),
          scan_time |-> [ start |-> Get(analyzer, "start_time", "N/A"),
                          end |-> Get(analyzer, "end_time", "N/A") ],
          projects |-> Get(result, "projects", << >>),
          packages |-> Get(result, "packages", << >>),
          issues |-> Get(result, "issues", EmptyDict),
          package_managers |->
              Get(Get(analyzer, "config", EmptyDict), "enabled_package_managers", << >>) ]

\* determine_analysis_status with the two tests in the other order
determine_analysis_status_PackagesFirst(ort_data) ==
    LET issues == Get(Get(Get(ort_data, "analyzer", EmptyDict),
                          "result", EmptyDict), "issues", EmptyDict)
        packages == Get(Get(Get(ort_data, "analyzer", EmptyDict),
                            "result", EmptyDict), "packages", << >>)
    IN  IF Len(packages) # 0 /\ Len(packages) > 0 THEN "SUCCESS"
        ELSE IF Len(issues) # 0 /\ Len(issues) > 0 THEN "ERROR"
        ELSE "INCOMPLETE"

\* determine_analysis_status testing that the issues key is there, not that
\* the collection holds something
determine_analysis_status_IssuesKey(ort_data) ==
    LET result == Get(Get(ort_data, "analyzer", EmptyDict), "result", EmptyDict)
        packages == Get(result, "packages", << >>)
    IN  IF "issues" \in DOMAIN result THEN "ERROR"
        ELSE IF Len(packages) # 0 /\ Len(packages) > 0 THEN "SUCCESS"
        ELSE "INCOMPLETE"

\* determine_analysis_status testing that the packages key is there, not that
\* the list holds something
determine_analysis_status_PackagesKey(ort_data) ==
    LET result == Get(Get(ort_data, "analyzer", EmptyDict), "result", EmptyDict)
        issues == Get(result, "issues", EmptyDict)
    IN  IF Len(issues) # 0 /\ Len(issues) > 0 THEN "ERROR"
        ELSE IF "packages" \in DOMAIN result THEN "SUCCESS"
        ELSE "INCOMPLETE"

\* determine_analysis_status(self, ort_data)
determine_analysis_status(ort_data) ==
    LET issues == Get(Get(Get(ort_data, "analyzer", EmptyDict),
                          "result", EmptyDict), "issues", EmptyDict)
        packages == Get(Get(Get(ort_data, "analyzer", EmptyDict),
                            "result", EmptyDict), "packages", << >>)
    \* "issues and len(issues) > 0": a collection is true when it is not empty
    IN  IF Len(issues) # 0 /\ Len(issues) > 0 THEN "ERROR"
        ELSE IF Len(packages) # 0 /\ Len(packages) > 0 THEN "SUCCESS"
        ELSE "INCOMPLETE"

\* the f-string generate_curation_prompt starts from
PromptHead(key_info, status) ==
    << "You are an expert software compliance analyst reviewing ORT (OSS Review Toolkit) analysis results.",
       "",
       "**Analysis Status**: " \o status,
       "",
       "**Repository Information**:",
       "- Repository: " \o key_info.repository_url,
       "- Revision: " \o key_info.revision,
       "- ORT Version: " \o key_info.ort_version,
       "",
       "**Scan Details**:",
       "- Start Time: " \o key_info.scan_time.start,
       "- End Time: " \o key_info.scan_time.end,
       "",
       "**Projects Analyzed**: " \o ToString(Len(key_info.projects)),
       "**Packages Detected**: " \o ToString(Len(key_info.packages)),
       "**Issues Found**: " \o ToString(Len(key_info.issues)),
       "",
       "" >>

\* three backquotes (a string literal holds a backquote only before a quote)
CODE_FENCE == SubSeq("```'", 1, 3)

\* the text appended when status is SUCCESS
CURATION_TEMPLATE ==
    << "",
       "**Your Task**: Generate a comprehensive curation report in PROPER MARKDOWN FORMAT.",
       "",
       "CRITICAL FORMATTING RULES:",
       "- Use proper heading hierarchy: # for main title, ## for sections, ### for subsections",
       "- Add blank lines before and after each heading",
       "- Add blank lines before and after lists",
       "- Use proper markdown list syntax with consistent indentation",
       "- Add blank lines between paragraphs",
       "- Use markdown tables where appropriate",
       "- Use code blocks with " \o CODE_FENCE \o " for technical content",
       "- Ensure all markdown syntax is properly formatted",
       "",
       "**Report Structure** (use this exact structure):",
       "",
       "## Executive Summary",
       "[Provide a clear, concise overview]",
       "",
       "## License Analysis",
       "",
       "### License Distribution",
       "[Create a markdown table showing license types and counts]",
       "",
       "### License Categories",
       "[Categorize licenses as Permissive, Copyleft, Proprietary, etc.]",
       "",
       "### License Compliance Concerns",
       "[List any concerns with proper formatting]",
       "",
       "## Package Inventory",
       "",
       "### Package Summary",
       "[Provide statistics]",
       "",
       "### Detailed Package List",
       "[Create a well-formatted table or list with: Package Name, Version, License, Source]",
       "",
       "## Risk Assessment",
       "",
       "### High Priority Issues",
       "[List critical items]",
       "",
       "### Medium Priority Issues",
       "[List moderate concerns]",
       "",
       "### Low Priority Issues",
       "[List minor notes]",
       "",
       "## Recommendations",
       "",
       "### Immediate Actions Required",
       "[Numbered list of actions]",
       "",
       "### Best Practices",
       "[Bullet list of recommendations]",
       "",
       "### Long-term Considerations",
       "[Strategic recommendations]",
       "",
       "## Summary",
       "",
       "**CRITICAL: Provide a clear, actionable final verdict in this section.**",
       "",
       "This section must include:",
       "1. **Overall Project Status**: Clearly state whether the project is \"READY TO PROCEED\", \"NEEDS ATTENTION\", or \"BLOCKED\" for production use",
       "2. **Key Findings**: Summarize the most important points in 2-3 sentences",
       "3. **Compliance Posture**: Assess the overall health of the dependency ecosystem (healthy/moderate concerns/significant risks)",
       "4. **Go/No-Go Recommendation**: Explicitly state if the project can proceed or what must be fixed first",
       "",
       "Example format:",
       "\"The dependency ecosystem is [healthy/concerning/problematic], with [X] packages using predominantly [permissive/copyleft/mixed] licenses. [No immediate compliance risks identified / Critical issues must be addressed before deployment]. The project is [READY TO PROCEED / REQUIRES REMEDIATION / BLOCKED].\"",
       "",
       "## Appendix",
       "",
       "### Package Details",
       "[Additional technical information]",
       "",
       "**Package Information**:",
       "" >>

\* the text appended otherwise
ERROR_TEMPLATE ==
    << "",
       "**Your Task**: Generate an error analysis report in PROPER MARKDOWN FORMAT.",
       "",
       "CRITICAL FORMATTING RULES:",
       "- Use proper heading hierarchy: # for main title, ## for sections, ### for subsections",
       "- Add blank lines before and after each heading",
       "- Add blank lines before and after lists",
       "- Use proper markdown list syntax with consistent indentation",
       "- Add blank lines between paragraphs",
       "- Use code blocks with " \o CODE_FENCE \o " for error messages",
       "- Ensure all markdown syntax is properly formatted",
       "",
       "**Report Structure** (use this exact structure):",
       "",
       "## Error Summary",
       "[Brief overview of what went wrong]",
       "",
       "## Root Cause Analysis",
       "",
       "### Primary Error",
       "[Main error explanation]",
       "",
       "### Contributing Factors",
       "[List factors that led to the error]",
       "",
       "## Detailed Error Information",
       "",
       "### Error Messages",
       "[Use code blocks for error messages]",
       "",
       "### Affected Components",
       "[List what couldn't be analyzed]",
       "",
       "## Impact Assessment",
       "",
       "### Compliance Risks",
       "[Explain risks from incomplete analysis]",
       "",
       "### Missing Data",
       "[What information is unavailable]",
       "",
       "## Troubleshooting Guide",
       "",
       "### Immediate Fixes",
       "1. [Step-by-step numbered list]",
       "",
       "### Configuration Changes",
       "[Detailed recommendations]",
       "",
       "### Alternative Approaches",
       "[Backup strategies]",
       "",
       "## Resolution Steps",
       "",
       "### Prerequisites",
       "[What needs to be in place]",
       "",
       "### Step-by-Step Resolution",
       "1. [Detailed numbered steps]",
       "",
       "### Verification",
       "[How to confirm the fix worked]",
       "",
       "## Next Steps",
       "",
       "### Immediate Actions",
       "- [Prioritized bullet list]",
       "",
       "### Follow-up Tasks",
       "- [Additional items]",
       "",
       "### Escalation Criteria",
       "[When to escalate]",
       "",
       "**Error Details**:",
       "" >>

PROMPT_TAIL ==
    << "",
       "",
       "REMEMBER: Strictly follow proper markdown formatting with blank lines, proper heading hierarchy, and consistent indentation. The output must be valid, well-formatted markdown." >>

\* PackageEntry with pkg.get('homepage_url') given no default
PackageEntry_NoHomepageDefault(pkg) ==
    << "",
       "- " \o Get(pkg, "id", "Unknown"),
       "  License: " \o ReprList(Get(pkg, "declared_licenses", << "Unknown" >>)),
       "  Homepage: " \o Get(pkg, "homepage_url", NoneValue) >>

\* what one turn of the package loop appends to the prompt
PackageEntry(pkg) ==
    << "",
       "- " \o Get(pkg, "id", "Unknown"),
       "  License: " \o ReprList(Get(pkg, "declared_licenses", << "Unknown" >>)),
       "  Homepage: " \o Get(pkg, "homepage_url", "N/A") >>

\* for pkg in pkgs: prompt += ...
RECURSIVE PackageLoop(_, _)
PackageLoop(prompt, pkgs) ==
    IF Len(pkgs) = 0 THEN prompt
    ELSE PackageLoop(Concat(prompt, PackageEntry(pkgs[1])), Tail(pkgs))

\* PromptPackages without the [:10]
PromptPackages_All(key_info) == key_info.packages

\* the packages the loop runs over
PromptPackages(key_info) == Slice(key_info.packages, PACKAGE_LIMIT)

\* what one turn of the inner issue loop appends to the prompt
IssueEntry(issue) ==
    << "",
       "- Severity: " \o Get(issue, "severity", "Unknown"),
       "- Source: " \o Get(issue, "source", "Unknown"),
       "- Message: " \o Slice(Get(issue, "message", "Unknown"), MESSAGE_LIMIT) \o "..." >>

\* for issue in issues: prompt += ...
RECURSIVE IssueLoop(_, _)
IssueLoop(prompt, issues) ==
    IF Len(issues) = 0 THEN prompt
    ELSE IssueLoop(Concat(prompt, IssueEntry(issues[1])), Tail(issues))

\* for project_id, issues in items: prompt += ...
RECURSIVE ProjectLoop(_, _)
ProjectLoop(prompt, items) ==
    IF Len(items) = 0 THEN prompt
    ELSE ProjectLoop(
             IssueLoop(Concat(prompt, << "", "", "Project: " \o items[1].key >>),
                       items[1].value),
             Tail(items))

\* the branch of generate_curation_prompt that status takes
PromptBody(prompt, key_info, status) ==
    IF status = "SUCCESS"
    THEN PackageLoop(Concat(prompt, CURATION_TEMPLATE), PromptPackages(key_info))
    ELSE ProjectLoop(Concat(prompt, ERROR_TEMPLATE), key_info.issues)

\* generate_curation_prompt(self, key_info, status)
generate_curation_prompt(key_info, status) ==
    Concat(PromptBody(PromptHead(key_info, status), key_info, status), PROMPT_TAIL)

\* TruncatedRevision without the [:8]
TruncatedRevision_Whole(key_info) == key_info.revision

\* key_info['revision'][:8]
TruncatedRevision(key_info) == Slice(key_info.revision, REVISION_LIMIT)

\* the metadata header generate_report puts before the answer
Metadata(key_info, status, now) ==
    << "# ORT Analysis Curation Report",
       "",
       "**Generated:** " \o StrftimeHeader(now) \o "  ",
       "**Status:** " \o status \o "  ",
       "**Repository:** " \o key_info.repository_url \o "  ",
       "**Revision:** " \o TruncatedRevision(key_info) \o "...",
       "",
       "---",
       "",
       "" >>

---------------------------------------------------------------------------
(* The script: __main__ and the steps of generate_report.                  *)

\* str(e) of what open() and yaml.safe_load may raise in load_ort_results
LoadErrors ==
    { "[Errno 2] No such file or directory: '" \o INPUT_FILE \o "'",
      "mapping values are not allowed here" }

\* str(e) of what client.chat.completions.create may raise
ApiErrors == { "Connection error." }

\* str(e) of report + None
CONCAT_NONE_ERROR == "can only concatenate str (not \"NoneType\") to str"

Init ==
    /\ pc = "main"
    /\ environ \in Environs
    /\ globals = EmptyDict
    /\ locals = EmptyDict
    /\ exception = << >>
    /\ clock = 0
    /\ stdout = << >>
    /\ files = EmptyDict
    /\ exit_status = << >>
    /\ scan_document = << >>
    /\ api_response = << >>
    /\ events = << >>

\* azure_config = {...}
ReadEnvironment ==
    /\ pc = "main"
    /\ globals' = globals @@
           ("azure_config" :>
               [ endpoint |-> Get(environ, ENDPOINT_VAR, DEFAULT_ENDPOINT),
                 api_key |-> Get(environ, API_KEY_VAR, NoneValue),
                 api_version |-> API_VERSION,
                 deployment_name |-> DEPLOYMENT_NAME ])
    /\ pc' = "validate"
    /\ UNCHANGED << environ, locals, exception, clock, stdout, files,
                    exit_status, scan_document, api_response, events >>

\* ApiKeyMissing testing for None only
ApiKeyMissing_NoneOnly(azure_config) == azure_config.api_key = NoneValue

\* not azure_config['api_key']
ApiKeyMissing(azure_config) == ~Truthy(azure_config.api_key)

\* if not azure_config['api_key']: print(...); print(...); exit(1)
ValidateApiKey ==
    /\ pc = "validate"
    /\ IF ApiKeyMissing(globals.azure_config)
       THEN /\ stdout' = stdout \o
                   << "ERROR: AZURE_OPENAI_API_KEY environment variable not set!",
                      "Please set it in your GitHub Secrets." >>
            /\ exit_status' = << 1 >>
            /\ pc' = "exited"
       ELSE /\ pc' = "init"
            /\ UNCHANGED << stdout, exit_status >>
    /\ UNCHANGED << environ, globals, locals, exception, clock, files,
                    scan_document, api_response, events >>

\* generator = ORTCurationReportGenerator(azure_config)
InitGenerator ==
    /\ pc = "init"
    /\ globals' = globals @@
           ("generator" :>
               [ client |-> [ api_version |-> globals.azure_config.api_version,
                              azure_endpoint |-> globals.azure_config.endpoint,
                              api_key |-> globals.azure_config.api_key ],
                 deployment_name |-> globals.azure_config.deployment_name ])
    /\ events' = Append(events, "client_constructed")
    /\ pc' = "files"
    /\ UNCHANGED << environ, locals, exception, clock, stdout, files,
                    exit_status, scan_document, api_response >>

\* input_file = ...; output_file = f"curation-report-{...}.md"
ChooseFiles ==
    /\ pc = "files"
    /\ globals' = globals @@
           [ input_file |-> INPUT_FILE,
             output_file |->
                 "curation-report-" \o StrftimeFileName(Now(clock)) \o ".md" ]
    /\ pc' = "load"
    /\ UNCHANGED << environ, locals, exception, clock, stdout, files,
                    exit_status, scan_document, api_response, events >>

\* generate_report: ort_data = self.load_ort_results(file_path)
LoadOrtResults ==
    /\ pc = "load"
    /\ \/ \E e \in LoadErrors :
            /\ exception' = << e >>
            /\ pc' = "except"
            /\ UNCHANGED << locals, scan_document, events >>
       \/ \E d \in ScanDocuments :
            /\ locals' = ("ort_data" :> d)
            /\ scan_document' = << d >>
            /\ events' = Append(events, "document_loaded")
            /\ pc' = "extract"
            /\ UNCHANGED exception
    /\ UNCHANGED << environ, globals, clock, stdout, files, exit_status,
                    api_response >>

\* generate_report: key_info = self.extract_key_info(ort_data)
ExtractKeyInfo ==
    /\ pc = "extract"
    /\ locals' = locals @@ ("key_info" :> extract_key_info(locals.ort_data))
    /\ pc' = "classify"
    /\ UNCHANGED << environ, globals, exception, clock, stdout, files,
                    exit_status, scan_document, api_response, events >>

\* generate_report: status = self.determine_analysis_status(ort_data)
DetermineAnalysisStatus ==
    /\ pc = "classify"
    /\ locals' = locals @@ ("status" :> determine_analysis_status(locals.ort_data))
    /\ events' = Append(events, "classified")
    /\ pc' = "prompt"
    /\ UNCHANGED << environ, globals, exception, clock, stdout, files,
                    exit_status, scan_document, api_response >>

\* generate_report: prompt = self.generate_curation_prompt(key_info, status)
GenerateCurationPrompt ==
    /\ pc = "prompt"
    /\ locals' = locals @@
           ("prompt" :> generate_curation_prompt(locals.key_info, locals.status))
    /\ events' = Append(events, "prompt_built")
    /\ pc' = "call"
    /\ UNCHANGED << environ, globals, exception, clock, stdout, files,
                    exit_status, scan_document, api_response >>

\* AfterApiError of a script that calls again when the call fails
AfterApiError_Retry == "call"

\* where control goes when client.chat.completions.create raises
AfterApiError == "except"

\* generate_report: response = self.client.chat.completions.create(...)
\* The call blocks: the clock may advance while it runs.
CallAzureOpenAI ==
    /\ pc = "call"
    /\ \E c \in clock..MaxClock :
         /\ clock' = c
         /\ \/ \E e \in ApiErrors :
                 /\ exception' = << e >>
                 /\ locals' = EmptyDict
                 /\ events' = Append(events, "api_call")
                 /\ pc' = AfterApiError
                 /\ UNCHANGED api_response
            \/ \E content \in Contents :
                 /\ locals' = locals @@
                        ("response" :>
                            [ choices |-> << [ message |->
                                  [ role |-> "assistant", content |-> content ] ] >> ])
                 /\ api_response' = << content >>
                 /\ events' = events \o << "api_call", "api_returned" >>
                 /\ pc' = "report"
                 /\ UNCHANGED exception
    /\ UNCHANGED << environ, globals, stdout, files, exit_status, scan_document >>

\* generate_report: report = ...content; metadata = f"..."; return metadata + report
BuildReport ==
    /\ pc = "report"
    /\ LET report == locals.response.choices[1].message.content
       IN  IF report = NoneValue
           THEN /\ exception' = << CONCAT_NONE_ERROR >>
                /\ pc' = "except"
                /\ UNCHANGED globals
           ELSE /\ globals' = globals @@
                       ("report" :>
                           Concat(Metadata(locals.key_info, locals.status, Now(clock)),
                                  report))
                /\ pc' = "save"
                /\ UNCHANGED exception
    /\ locals' = EmptyDict
    /\ UNCHANGED << environ, clock, stdout, files, exit_status, scan_document,
                    api_response, events >>

\* str(e) of what open(output_path, 'w') may raise in save_report
SaveErrors(output_path) ==
    { "[Errno 13] Permission denied: '" \o output_path \o "'" }

\* generator.save_report(report, output_file)
SaveReport ==
    /\ pc = "save"
    /\ \/ \E e \in SaveErrors(globals.output_file) :
            /\ exception' = << e >>
            /\ pc' = "except"
            /\ UNCHANGED << files, stdout, events >>
       \/ /\ files' = (globals.output_file :> globals.report) @@ files
          /\ stdout' = Append(stdout, "Report saved to: " \o globals.output_file)
          /\ events' = Append(events, "file_written")
          /\ pc' = "preview"
          /\ UNCHANGED exception
    /\ UNCHANGED << environ, globals, locals, clock, exit_status, scan_document,
                    api_response >>

\* "=" * 80
RULE_WIDTH == 80

\* the prints after save_report; then the script ends
PrintPreview ==
    /\ pc = "preview"
    /\ stdout' = stdout
           \o << "", "Report Preview:", Repeat("=", RULE_WIDTH) >>
           \o Concat(TextSlice(globals.report, PREVIEW_LIMIT), << "...", "" >>)
           \o << Repeat("=", RULE_WIDTH), "",
                 "Successfully generated: " \o globals.output_file >>
    /\ exit_status' = << 0 >>
    /\ pc' = "exited"
    /\ UNCHANGED << environ, globals, locals, exception, clock, files,
                    scan_document, api_response, events >>

\* ExceptHandler without the exit(1): the script goes on to its end
ExceptHandler_NoExit ==
    /\ pc = "except"
    /\ stdout' = Append(stdout, "Error generating report: " \o exception[1])
    /\ events' = Append(events, "exception_caught")
    /\ exit_status' = << 0 >>
    /\ pc' = "exited"
    /\ UNCHANGED << environ, globals, locals, exception, clock, files,
                    scan_document, api_response >>

\* except Exception as e: print(f"Error generating report: {str(e)}"); exit(1)
ExceptHandler ==
    /\ pc = "except"
    /\ stdout' = Append(stdout, "Error generating report: " \o exception[1])
    /\ events' = Append(events, "exception_caught")
    /\ exit_status' = << 1 >>
    /\ pc' = "exited"
    /\ UNCHANGED << environ, globals, locals, exception, clock, files,
                    scan_document, api_response >>

Next ==
    \/ ReadEnvironment
    \/ ValidateApiKey
    \/ InitGenerator
    \/ ChooseFiles
    \/ LoadOrtResults
    \/ ExtractKeyInfo
    \/ DetermineAnalysisStatus
    \/ GenerateCurationPrompt
    \/ CallAzureOpenAI
    \/ BuildReport
    \/ SaveReport
    \/ PrintPreview
    \/ ExceptHandler

Spec == Init /\ [][Next]_vars

---------------------------------------------------------------------------
(* Vocabulary of the properties.                                           *)

\* the value a document holds under a path of keys, or dflt where a key of
\* the path is absent
RECURSIVE Lookup(_, _, _)
Lookup(d, path, dflt) ==
    IF Len(path) = 0 THEN d
    ELSE IF path[1] \in DOMAIN d THEN Lookup(d[path[1]], Tail(path), dflt)
    ELSE dflt

IssuesOf(d) == Lookup(d, << "analyzer", "result", "issues" >>, << >>)
PackagesOf(d) == Lookup(d, << "analyzer", "result", "packages" >>, << >>)
RevisionOf(d) == Lookup(d, << "repository", "vcs_processed", "revision" >>, "N/A")
UrlOf(d) == Lookup(d, << "repository", "vcs_processed", "url" >>, "N/A")

\* every issue of an issues mapping, in order
RECURSIVE AllIssues(_)
AllIssues(items) ==
    IF Len(items) = 0 THEN << >> ELSE items[1].value \o AllIssues(Tail(items))

Min(a, b) == IF a < b THEN a ELSE b

StartsWith(s, prefix) ==
    Len(s) >= Len(prefix) /\ SubSeq(s, 1, Len(prefix)) = prefix

\* how many lines of text are in the set S
CountLines(text, S) == Cardinality({ i \in DOMAIN text : text[i] \in S })

\* how many of the dicts lack the key
CountMissing(dicts, key) ==
    Cardinality({ i \in DOMAIN dicts : key \notin DOMAIN dicts[i] })

\* how often event e has happened
CountEvents(e) == Cardinality({ i \in DOMAIN events : events[i] = e })

\* every occurrence of event e2 comes after an occurrence of e1
Precedes(e1, e2) ==
    \A i \in DOMAIN events :
        events[i] = e2 => \E j \in 1..(i - 1) : events[j] = e1

Classified == "status" \in DOMAIN locals
PromptBuilt == "prompt" \in DOMAIN locals
ApiKeyAbsent == API_KEY_VAR \notin DOMAIN environ \/ environ[API_KEY_VAR] = ""

CURATION_TASK ==
    "**Your Task**: Generate a comprehensive curation report in PROPER MARKDOWN FORMAT."
ERROR_TASK ==
    "**Your Task**: Generate an error analysis report in PROPER MARKDOWN FORMAT."

HasLine(text, line) == \E i \in DOMAIN text : text[i] = line

\* the index of the first line of text that equals line
LineIndex(text, line) ==
    CHOOSE i \in DOMAIN text :
        text[i] = line /\ \A j \in 1..(i - 1) : text[j] # line

---------------------------------------------------------------------------
(* Properties.                                                             *)

\* C1: a document whose analyzer.result.issues collection is not empty is
\* classified "ERROR", whatever analyzer.result.packages holds.
C1_IssuesGiveError ==
    (Classified /\ Len(IssuesOf(locals.ort_data)) > 0) => locals.status = "ERROR"

\* a document with issues and with packages has been classified
C1_Witness ==
    /\ Classified
    /\ Len(IssuesOf(locals.ort_data)) > 0
    /\ Len(PackagesOf(locals.ort_data)) > 0
    /\ locals.status = "ERROR"

\* C2: a document whose issues collection is empty or absent and whose
\* packages list is not empty is classified "SUCCESS".
C2_PackagesGiveSuccess ==
    ( /\ Classified
      /\ Len(IssuesOf(locals.ort_data)) = 0
      /\ Len(PackagesOf(locals.ort_data)) > 0 ) => locals.status = "SUCCESS"

\* a document with an issues mapping that is there but empty, and with
\* packages, has been classified
C2_Witness ==
    /\ Classified
    /\ "analyzer" \in DOMAIN locals.ort_data
    /\ "result" \in DOMAIN locals.ort_data.analyzer
    /\ "issues" \in DOMAIN locals.ort_data.analyzer.result
    /\ Len(IssuesOf(locals.ort_data)) = 0
    /\ Len(PackagesOf(locals.ort_data)) > 0
    /\ locals.status = "SUCCESS"

\* C3: a document whose issues collection and packages list are both empty
\* or absent is classified "INCOMPLETE"; every loaded document is
\* classified, as one of ERROR, SUCCESS and INCOMPLETE, and each of the
\* three answers is given in its own case only.
C3_NothingGivesIncomplete ==
    /\ pc \in { "prompt", "call", "report" } => Classified
    /\ Classified =>
         LET issues == IssuesOf(locals.ort_data)
             packages == PackagesOf(locals.ort_data)
         IN  /\ (Len(issues) = 0 /\ Len(packages) = 0) => locals.status = "INCOMPLETE"
             /\ locals.status \in { "ERROR", "SUCCESS", "INCOMPLETE" }
             /\ locals.status = "INCOMPLETE" => (Len(issues) = 0 /\ Len(packages) = 0)

\* a document whose issues mapping and packages list are there and empty
\* has been classified
C3_Witness ==
    /\ Classified
    /\ "analyzer" \in DOMAIN locals.ort_data
    /\ "result" \in DOMAIN locals.ort_data.analyzer
    /\ { "issues", "packages" } \subseteq DOMAIN locals.ort_data.analyzer.result
    /\ Len(IssuesOf(locals.ort_data)) = 0
    /\ Len(PackagesOf(locals.ort_data)) = 0
    /\ locals.status = "INCOMPLETE"

\* Between the loading of the document and the call of the API nothing is
\* raised, and once an answer with a content is there the report is built.
C4_NoFailure ==
    /\ ("document_loaded" \in { events[i] : i \in DOMAIN events }
            /\ "api_call" \notin { events[i] : i \in DOMAIN events })
         => (exception = << >> /\ pc \in { "extract", "classify", "prompt", "call" })
    /\ (api_response # << >> /\ pc \in { "save", "preview" })
         => "report" \in DOMAIN globals

\* key_info holds the document's value of each field, or the placeholder
C4_KeyInfoPlaceholders ==
    "key_info" \in DOMAIN locals =>
        LET d == locals.ort_data
            k == locals.key_info
        IN  /\ k.repository_url = UrlOf(d)
            /\ k.revision = RevisionOf(d)
            /\ k.ort_version =
                   Lookup(d, << "analyzer", "environment", "ort_version" >>, "N/A")
            /\ k.scan_time.start = Lookup(d, << "analyzer", "start_time" >>, "N/A")
            /\ k.scan_time.end = Lookup(d, << "analyzer", "end_time" >>, "N/A")
            /\ k.projects = Lookup(d, << "analyzer", "result", "projects" >>, << >>)
            /\ k.packages = Lookup(d, << "analyzer", "result", "packages" >>, << >>)
            /\ k.issues = Lookup(d, << "analyzer", "result", "issues" >>, EmptyDict)
            /\ k.package_managers =
                   Lookup(d, << "analyzer", "config", "enabled_package_managers" >>,
                          << >>)

\* the prompt and the header of the report show the placeholders of the
\* repository fields
C4_TextPlaceholders ==
    /\ PromptBuilt =>
         /\ locals.prompt[6] = "- Repository: " \o UrlOf(locals.ort_data)
         /\ locals.prompt[7] = "- Revision: " \o RevisionOf(locals.ort_data)
         /\ locals.prompt[8] = "- ORT Version: " \o
                Lookup(locals.ort_data, << "analyzer", "environment", "ort_version" >>,
                       "N/A")
    /\ ("report" \in DOMAIN globals /\ "url" \notin DOMAIN
            Lookup(scan_document[1], << "repository", "vcs_processed" >>, EmptyDict))
         => globals.report[5] = "**Repository:** N/A  "
    /\ ("report" \in DOMAIN globals /\ "revision" \notin DOMAIN
            Lookup(scan_document[1], << "repository", "vcs_processed" >>, EmptyDict))
         => globals.report[6] = "**Revision:** N/A..."

\* in the error prompt every issue field that is absent shows as 'Unknown'
C4_IssuePlaceholders ==
    (PromptBuilt /\ locals.status # "SUCCESS") =>
        LET issues == AllIssues(IssuesOf(locals.ort_data))
        IN  /\ CountLines(locals.prompt, { "- Severity: Unknown" })
                   = CountMissing(issues, "severity")
            /\ CountLines(locals.prompt, { "- Source: Unknown" })
                   = CountMissing(issues, "source")
            /\ CountLines(locals.prompt, { "- Message: Unknown..." })
                   = CountMissing(issues, "message")

\* in the curation prompt every absent field of a listed package shows as
\* its placeholder, the one of declared_licenses being one of licenseLines
C4_PackagePlaceholders(licenseLines) ==
    (PromptBuilt /\ locals.status = "SUCCESS") =>
        LET pkgs == PackagesOf(locals.ort_data)
            listed == SubSeq(pkgs, 1, Min(10, Len(pkgs)))
        IN  /\ CountLines(locals.prompt, { "- Unknown" }) = CountMissing(listed, "id")
            /\ CountLines(locals.prompt, { "  Homepage: N/A" })
                   = CountMissing(listed, "homepage_url")
            /\ CountLines(locals.prompt, licenseLines)
                   = CountMissing(listed, "declared_licenses")

\* C4 as stated: every absent optional key leaves extract_key_info,
\* determine_analysis_status, generate_curation_prompt and the header
\* construction running to their end, and each absent field shows as
\* 'N/A', 'Unknown' or an empty list or mapping.
C4_AsStated ==
    /\ C4_NoFailure
    /\ C4_KeyInfoPlaceholders
    /\ C4_TextPlaceholders
    /\ C4_IssuePlaceholders
    /\ C4_PackagePlaceholders({ "  License: N/A", "  License: Unknown",
                                "  License: []", "  License: {}" })

\* C4 (amended): every absent optional key leaves extract_key_info,
\* determine_analysis_status, generate_curation_prompt and the header
\* construction running to their end, and each absent field shows as
\* 'N/A', 'Unknown' or an empty list or mapping, but for a package's
\* declared_licenses, which shows as the one-element list ['Unknown'].
C4_MissingFieldsFallBack ==
    /\ C4_NoFailure
    /\ C4_KeyInfoPlaceholders
    /\ C4_TextPlaceholders
    /\ C4_IssuePlaceholders
    /\ C4_PackagePlaceholders({ "  License: ['Unknown']" })

\* the prompt is built of a document without a repository whose first
\* package has no key at all
C4_Witness ==
    /\ PromptBuilt
    /\ locals.status = "SUCCESS"
    /\ "repository" \notin DOMAIN locals.ort_data
    /\ DOMAIN PackagesOf(locals.ort_data)[1] = {}
    /\ HasLine(locals.prompt, "  License: ['Unknown']")
    /\ HasLine(locals.prompt, "  Homepage: N/A")

\* C5: a file that is written starts with the metadata header: the title,
\* the Generated line, the Status line with the status of the loaded
\* document, the Repository line, the Revision line with the first 8
\* characters of the extracted revision and '...', and the rule; the answer
\* of the model comes after it.
C5_HeaderFirst ==
    \A path \in DOMAIN files :
        LET text == files[path]
            d == scan_document[1]
            rev == RevisionOf(d)
        IN  /\ Len(text) >= 10
            /\ text[1] = "# ORT Analysis Curation Report"
            /\ text[2] = ""
            /\ StartsWith(text[3], "**Generated:** ")
            /\ text[4] = "**Status:** " \o determine_analysis_status(d) \o "  "
            /\ text[5] = "**Repository:** " \o UrlOf(d) \o "  "
            /\ text[6] = "**Revision:** " \o SubSeq(rev, 1, Min(8, Len(rev))) \o "..."
            /\ text[7] = ""
            /\ text[8] = "---"
            /\ text[9] = ""
            /\ SubSeq(text, 10, Len(text)) = api_response[1]

\* a file is written of a document whose revision has more than 8
\* characters, with an answer of several lines
C5_Witness ==
    /\ files # EmptyDict
    /\ Len(RevisionOf(scan_document[1])) > 8
    /\ Len(api_response[1]) > 1
    /\ determine_analysis_status(scan_document[1]) = "ERROR"

\* C6: with AZURE_OPENAI_API_KEY absent or empty the process exits with
\* status 1 (it is at the validation or before, and goes on, or it has
\* exited with 1), and the client is never constructed, the document never
\* loaded, the API never called and no file written.
C6_NoKeyNoWork ==
    ApiKeyAbsent =>
        /\ \/ pc \in { "main", "validate" } /\ ENABLED Next
           \/ pc = "exited" /\ exit_status = << 1 >>
        /\ events = << >>
        /\ scan_document = << >>
        /\ api_response = << >>
        /\ files = EmptyDict
        /\ "generator" \notin DOMAIN globals

\* the run with the key set to the empty string has exited
C6_Witness ==
    /\ API_KEY_VAR \in DOMAIN environ
    /\ environ[API_KEY_VAR] = ""
    /\ pc = "exited"
    /\ exit_status = << 1 >>

\* C7: with the key present, an exception raised while loading, calling
\* the API or writing goes to the one handler, which prints its message
\* and exits with status 1; the process exits with status 0 only with the
\* report generated and written.
C7_ExceptionsExitOne ==
    ~ApiKeyAbsent =>
        /\ exception # << >> =>
             /\ pc \in { "except", "exited" }
             /\ pc = "except" => ENABLED ExceptHandler
             /\ pc = "exited" =>
                  /\ exit_status = << 1 >>
                  /\ stdout[Len(stdout)] = "Error generating report: " \o exception[1]
                  /\ CountEvents("exception_caught") = 1
        /\ exception = << >> => CountEvents("exception_caught") = 0
        /\ (pc = "exited" /\ exit_status = << 0 >>) =>
             /\ exception = << >>
             /\ "report" \in DOMAIN globals
             /\ globals.output_file \in DOMAIN files
             /\ files[globals.output_file] = globals.report

\* the run has exited after open() of the output file raised
C7_Witness ==
    /\ pc = "exited"
    /\ exit_status = << 1 >>
    /\ exception # << >>
    /\ exception[1] \in SaveErrors(globals.output_file)
    /\ "api_returned" \in { events[i] : i \in DOMAIN events }
    /\ files = EmptyDict

\* C8: the API is called at most once; the call comes after the document
\* is loaded and classified and the prompt built; a file is written only
\* after the call has returned; a call that fails leaves no file and the
\* process exits with status 1.
C8_OneCallThenWrite ==
    /\ CountEvents("api_call") <= 1
    /\ Precedes("document_loaded", "classified")
    /\ Precedes("classified", "prompt_built")
    /\ Precedes("prompt_built", "api_call")
    /\ Precedes("api_returned", "file_written")
    /\ Precedes("api_call", "api_returned")
    /\ (CountEvents("api_call") > 0 /\ CountEvents("api_returned") = 0) =>
         /\ files = EmptyDict
         /\ pc \in { "except", "exited" }
         /\ pc = "exited" => exit_status = << 1 >>

\* the run has exited after the call of the API raised
C8_Witness ==
    /\ CountEvents("api_call") = 1
    /\ CountEvents("api_returned") = 0
    /\ pc = "exited"
    /\ exit_status = << 1 >>
    /\ files = EmptyDict

\* C9: the prompt holds the error-analysis template exactly when the
\* status is ERROR, and the curation template exactly when it is SUCCESS.
C9_ErrorTemplateOnlyForError ==
    PromptBuilt =>
        /\ (HasLine(locals.prompt, ERROR_TASK) /\ HasLine(locals.prompt, "**Error Details**:"))
               <=> locals.status = "ERROR"
        /\ HasLine(locals.prompt, CURATION_TASK) <=> locals.status = "SUCCESS"

\* C10: the prompt of a document classified SUCCESS lists min(10, N) of
\* its N >= 1 packages under "Package Information", the first ones in the
\* order of the document, and gives N as the count of packages detected.
C10_FirstTenPackages ==
    (PromptBuilt /\ locals.status = "SUCCESS") =>
        LET prompt == locals.prompt
            pkgs == PackagesOf(locals.ort_data)
            n == Min(10, Len(pkgs))
            k == LineIndex(prompt, "**Package Information**:")
        IN  /\ Len(pkgs) >= 1
            /\ HasLine(prompt, "**Package Information**:")
            /\ Cardinality({ i \in (k + 1)..Len(prompt) : StartsWith(prompt[i], "- ") }) = n
            /\ n >= 1 /\ n <= 10
            /\ \A i \in 1..n :
                 /\ prompt[k + 3 * i - 1] =
                        "- " \o (IF "id" \in DOMAIN pkgs[i] THEN pkgs[i].id ELSE "Unknown")
                 /\ prompt[k + 3 * i + 1] =
                        "  Homepage: " \o (IF "homepage_url" \in DOMAIN pkgs[i]
                                           THEN pkgs[i].homepage_url ELSE "N/A")
            /\ Len(prompt) = k + 3 * n + 3
            /\ prompt[15] = "**Packages Detected**: " \o ToString(Len(pkgs))

\* the prompt is built of a document with more than 10 packages, the
\* eleventh of them with a homepage
C10_Witness ==
    /\ PromptBuilt
    /\ locals.status = "SUCCESS"
    /\ Len(PackagesOf(locals.ort_data)) > 10
    /\ "homepage_url" \in DOMAIN PackagesOf(locals.ort_data)[11]
    /\ HasLine(locals.prompt, "- NPM::pkg9:1.0.0")

=============================================================================
